---- MODULE Spec2Model ----
(***************************************************************************)
(* rv6 kernel arena (kernel-rs/src/arena.rs): the reference-counted        *)
(* fixed-capacity pools ArrayArena and MruArena behind a Spinlock, and the *)
(* owning wrapper Rc.                                                      *)
(*                                                                         *)
(* One pool is modelled at a time: `kind` says which implementation of the *)
(* Arena trait the pool is.  Slots are 1..CAPACITY; list node 0 is the     *)
(* sentinel `head` of MruArena and node i is entries[i-1].list_entry.      *)
(* Threads call the pool through Rc (find_or_alloc, alloc, clone, drop).   *)
(* The body of an operation runs under the pool's spinlock and is one      *)
(* step; taking the lock is a step of its own, and a finalize that calls   *)
(* reacquire_after gives the lock up in the middle of dealloc.             *)
(*                                                                         *)
(* The sleep-locks of kernel-rs/src/sleeplock.rs (Sleeplock and            *)
(* SleeplockWIP) are modelled next to the pool, with processes that call   *)
(* acquire, release and holding, or lock and the drop of the guard; the    *)
(* pool does not use them, and SleepSpec runs them on their own.           *)
(***************************************************************************)
EXTENDS Integers, FiniteSets, Sequences, TLC

\* Number of slots of the pool (the const generic CAPACITY).
CAPACITY == 2
\* Number of threads (CPUs) that use the pool.
NThreads == 2
\* Number of distinct data values a slot can store.
NData == 2
\* Largest reference count explored (refcnt is a usize in the code).
MaxRef == 2

Slots == 1..CAPACITY
Nodes == 0..CAPACITY
Threads == 1..NThreads
Data == 1..NData
\* Number of processes that use the sleep-locks; process p has pid p.
NProcs == 3
Procs == 1..NProcs
\* A predicate `c: Fn(&Data) -> bool` is the set of data values it accepts.
Preds == SUBSET Data

VARIABLES
    kind,      \* "array" or "mru": which Arena implementation the pool is
    refcnt,    \* refcnt[s]: ArrayEntry::refcnt / MruEntry::refcnt
    data,      \* data[s]: ArrayEntry::data / MruEntry::data
    next,      \* next[n]: ListEntry::next of node n (MruArena only)
    prev,      \* prev[n]: ListEntry::prev of node n (MruArena only)
    lk,        \* the pool's Spinlock: 0 when free, else the holding thread
    pc,        \* pc[t]: where thread t is
    held,      \* held[t][s]: number of Rc wrappers of slot s thread t owns
    inflight,  \* inflight[t]: the slot whose handle t's dealloc has taken, or 0
    finalized, \* finalized[s]: finalize has run on s, which is still referenced
    streak,    \* successful alloc calls since the last release (saturating)
    rel,       \* MRU pool: the slots that reached refcnt 0, last release first
    ev,        \* the last pool operation that ran under the lock
    sleeplock, \* struct Sleeplock: locked, pid, lk (0: free, else the holder),
               \* waitchannel (the processes asleep on it)
    wip,       \* struct SleeplockWIP: spinlock (its i32), lk (holder of the
               \* spinlock), waitchannel
    proc,      \* proc[p]: where process p is, and whether an acquire of p has
               \* returned (acquired) or p owns a SleepLockGuard (guard)
    sev        \* the last sleep-lock call that returned

sleepvars == <<sleeplock, wip, proc, sev>>

arena == <<kind, refcnt, data, next, prev, lk, pc, held, inflight, finalized, streak, rel, ev>>

vars == <<kind, refcnt, data, next, prev, lk, pc, held, inflight, finalized, streak, rel, ev,
          sleeplock, wip, proc, sev>>

pool == <<refcnt, data, next, prev>>

NoEv == [op |-> "none", c |-> {}, slot |-> 0, ninit |-> 0, fin |-> "none"]

Min(a, b) == IF a < b THEN a ELSE b

(***************************************************************************)
(* The intrusive list (crate::list::ListEntry).                            *)
(***************************************************************************)

\* ListEntry::init: the node links to itself.
ListInit(L, e) ==
    [next |-> [L.next EXCEPT ![e] = e], prev |-> [L.prev EXCEPT ![e] = e]]

\* ListEntry::prepend: e is linked right after node h.
ListPrepend(L, h, e) ==
    LET L1 == [next |-> [L.next EXCEPT ![e] = L.next[h]],
               prev |-> [L.prev EXCEPT ![e] = h]]
        L2 == [next |-> L1.next, prev |-> [L1.prev EXCEPT ![L1.next[e]] = e]]
    IN  [next |-> [L2.next EXCEPT ![L2.prev[e]] = e], prev |-> L2.prev]

\* ListEntry::remove: e is unlinked from its neighbours and re-initialised.
ListRemove(L, e) ==
    LET L1 == [next |-> [L.next EXCEPT ![L.prev[e]] = L.next[e]], prev |-> L.prev]
        L2 == [next |-> L1.next, prev |-> [L1.prev EXCEPT ![L.next[e]] = L.prev[e]]]
    IN  ListInit(L2, e)

RECURSIVE PrependAll(_, _)
PrependAll(L, i) ==
    IF i > CAPACITY THEN L ELSE PrependAll(ListPrepend(L, 0, i), i + 1)

\* MruArena::init: head.init(), then every entry in index order is prepended.
MruArena_init ==
    PrependAll(ListInit([next |-> [n \in Nodes |-> n], prev |-> [n \in Nodes |-> n]], 0), 1)

\* ArrayArena has no list: the links are never read or written.
NoList == [next |-> [n \in Nodes |-> n], prev |-> [n \in Nodes |-> n]]

(***************************************************************************)
(* The scans.  A result is [tag, slot]: "match" (an entry the predicate    *)
(* accepted), "empty" (the free entry to initialise), "none", or "hang"    *)
(* (the list walk never comes back to the sentinel).                       *)
(***************************************************************************)

Res(tag, s) == [tag |-> tag, slot |-> s]

RECURSIVE ArrayScan(_, _)
\* ArrayArena find_or_alloc_handle: the for loop from entry i on.
ArrayScan(i, c) ==
    IF i > CAPACITY THEN Res("none", 0)
    ELSE IF refcnt[i] # 0
         THEN IF data[i] \in c THEN Res("match", i) ELSE ArrayScan(i + 1, c)
         ELSE Res("empty", i)

RECURSIVE ArrayAllocScan(_)
\* ArrayArena alloc_handle: the for loop from entry i on.
ArrayAllocScan(i) ==
    IF i > CAPACITY THEN Res("none", 0)
    ELSE IF refcnt[i] = 0 THEN Res("empty", i) ELSE ArrayAllocScan(i + 1)

RECURSIVE MruScan(_, _, _, _)
\* MruArena find_or_alloc_handle: the while loop from list node n on, with
\* the fallback `empty` recorded so far.
MruScan(n, empty, c, fuel) ==
    IF n = 0 THEN (IF empty = 0 THEN Res("none", 0) ELSE Res("empty", empty))
    ELSE IF fuel = 0 THEN Res("hang", 0)
    ELSE IF data[n] \in c THEN Res("match", n)
    ELSE MruScan(next[n], IF refcnt[n] = 0 THEN n ELSE empty, c, fuel - 1)

RECURSIVE MruAllocScan(_, _)
\* MruArena alloc_handle: the while loop from list node n on, towards prev.
MruAllocScan(n, fuel) ==
    IF n = 0 THEN Res("none", 0)
    ELSE IF fuel = 0 THEN Res("hang", 0)
    ELSE IF refcnt[n] = 0 THEN Res("empty", n)
    ELSE MruAllocScan(prev[n], fuel - 1)

RECURSIVE ArrayScanAnyRefcnt(_, _)
\* The array scan with the `entry.refcnt != 0` test left out.
ArrayScanAnyRefcnt(i, c) ==
    IF i > CAPACITY THEN Res("none", 0)
    ELSE IF data[i] \in c THEN Res("match", i)
    ELSE IF refcnt[i] = 0 THEN Res("empty", i)
    ELSE ArrayScanAnyRefcnt(i + 1, c)

\* Faulty find_or_alloc_handle: the array scan also matches free entries.
FindResultAnyRefcnt(c) ==
    IF kind = "array" THEN ArrayScanAnyRefcnt(1, c) ELSE MruScan(next[0], 0, c, CAPACITY)

\* Faulty find_or_alloc_handle: the recorded free entry is not used.
FindResultNoFallback(c) ==
    LET r == IF kind = "array" THEN ArrayScan(1, c) ELSE MruScan(next[0], 0, c, CAPACITY)
    IN  IF r.tag = "empty" THEN Res("none", 0) ELSE r

\* Faulty find_or_alloc_handle: a free entry is preferred to a match.
FindResultPreferFree(c) ==
    LET r == IF kind = "array" THEN ArrayScan(1, c) ELSE MruScan(next[0], 0, c, CAPACITY)
        f == IF kind = "array" THEN ArrayAllocScan(1) ELSE MruAllocScan(prev[0], CAPACITY)
    IN  IF f.tag = "empty" THEN f ELSE r

RECURSIVE MruScanAllocatedOnly(_, _, _, _)
\* The MRU scan with an `entry.refcnt != 0` test put before the predicate.
MruScanAllocatedOnly(n, empty, c, fuel) ==
    IF n = 0 THEN (IF empty = 0 THEN Res("none", 0) ELSE Res("empty", empty))
    ELSE IF fuel = 0 THEN Res("hang", 0)
    ELSE IF refcnt[n] # 0 /\ data[n] \in c THEN Res("match", n)
    ELSE MruScanAllocatedOnly(next[n], IF refcnt[n] = 0 THEN n ELSE empty, c, fuel - 1)

\* Faulty find_or_alloc_handle: the MRU scan matches allocated entries only.
FindResultAllocatedOnly(c) ==
    IF kind = "array" THEN ArrayScan(1, c) ELSE MruScanAllocatedOnly(next[0], 0, c, CAPACITY)

RECURSIVE MruScanBreak(_, _, _)
\* The MRU scan with the array scan's `break` at the first free entry.
MruScanBreak(n, c, fuel) ==
    IF n = 0 THEN Res("none", 0)
    ELSE IF fuel = 0 THEN Res("hang", 0)
    ELSE IF data[n] \in c THEN Res("match", n)
    ELSE IF refcnt[n] = 0 THEN Res("empty", n)
    ELSE MruScanBreak(next[n], c, fuel - 1)

\* Faulty find_or_alloc_handle: the MRU scan stops at the first free entry.
FindResultBreak(c) ==
    IF kind = "array" THEN ArrayScan(1, c) ELSE MruScanBreak(next[0], c, CAPACITY)

RECURSIVE MruScanFirstFree(_, _, _, _)
\* The MRU scan that keeps the first free entry it saw as the fallback.
MruScanFirstFree(n, empty, c, fuel) ==
    IF n = 0 THEN (IF empty = 0 THEN Res("none", 0) ELSE Res("empty", empty))
    ELSE IF fuel = 0 THEN Res("hang", 0)
    ELSE IF data[n] \in c THEN Res("match", n)
    ELSE MruScanFirstFree(next[n], IF refcnt[n] = 0 /\ empty = 0 THEN n ELSE empty, c, fuel - 1)

\* Faulty find_or_alloc_handle: the MRU fallback is the first free entry.
FindResultFirstFree(c) ==
    IF kind = "array" THEN ArrayScan(1, c) ELSE MruScanFirstFree(next[0], 0, c, CAPACITY)

\* What find_or_alloc_handle(c, n) decides in the current pool state.
FindResult(c) ==
    IF kind = "array" THEN ArrayScan(1, c) ELSE MruScan(next[0], 0, c, CAPACITY)

RECURSIVE ArrayAllocScanDown(_)
\* The array alloc scan run from the last entry down.
ArrayAllocScanDown(i) ==
    IF i < 1 THEN Res("none", 0)
    ELSE IF refcnt[i] = 0 THEN Res("empty", i) ELSE ArrayAllocScanDown(i - 1)

\* Faulty alloc_handle: the array pool takes the free entry of highest index.
AllocResultLast ==
    IF kind = "array" THEN ArrayAllocScanDown(CAPACITY) ELSE MruAllocScan(prev[0], CAPACITY)

\* Faulty alloc_handle: the first entry of the scan is taken whatever its
\* refcnt.
AllocResultAny ==
    IF kind = "array" THEN Res("empty", 1) ELSE Res("empty", prev[0])

\* Faulty alloc_handle: the scan starts one entry late.
AllocResultSkipFirst ==
    IF kind = "array" THEN ArrayAllocScan(2) ELSE MruAllocScan(prev[prev[0]], CAPACITY)

\* What alloc_handle(f) decides in the current pool state.
AllocResult ==
    IF kind = "array" THEN ArrayAllocScan(1) ELSE MruAllocScan(prev[0], CAPACITY)

(***************************************************************************)
(* The spinlock (crate::spinlock::Spinlock).                               *)
(***************************************************************************)

\* Faulty lock: taken without waiting for it to be free.
SpinlockLockBlind(t) == lk' = t

\* Spinlock::lock by thread t: spins until the lock is free, then holds it.
SpinlockLock(t) == lk = 0 /\ lk' = t

\* Dropping the SpinlockGuard.
SpinlockUnlock == lk' = 0

(***************************************************************************)
(* Initial state: a constructed pool (MruArena::init has run), every       *)
(* refcnt 0, entries built from arbitrary data.                            *)
(***************************************************************************)
\* Sleeplock::zeroed / Sleeplock::new: not locked, pid 0.
Sleeplock_new == [locked |-> 0, pid |-> 0, lk |-> 0, waitchannel |-> {}]

\* SleeplockWIP::new: the spinlock's value is -1.
SleeplockWIP_new == [spinlock |-> -1, lk |-> 0, waitchannel |-> {}]

NoSev == [op |-> "none", p |-> 0, r |-> FALSE]

Init ==
    /\ sleeplock = Sleeplock_new
    /\ wip = SleeplockWIP_new
    /\ proc = [p \in Procs |-> [pc |-> "idle", acquired |-> FALSE, guard |-> FALSE]]
    /\ sev = NoSev
    /\ kind \in {"array", "mru"}
    /\ refcnt = [s \in Slots |-> 0]
    /\ data \in [Slots -> Data]
    /\ next = IF kind = "mru" THEN MruArena_init.next ELSE NoList.next
    /\ prev = IF kind = "mru" THEN MruArena_init.prev ELSE NoList.prev
    /\ lk = 0
    /\ pc = [t \in Threads |-> "idle"]
    /\ held = [t \in Threads |-> [s \in Slots |-> 0]]
    /\ inflight = [t \in Threads |-> 0]
    /\ finalized = [s \in Slots |-> FALSE]
    /\ streak = 0
    /\ rel = <<>>
    /\ ev = NoEv


(***************************************************************************)
(* Effects of the operations on the table.                                 *)
(***************************************************************************)

\* Faulty increment: the refcnt is left as it was.
IncRefcntLost(s) == refcnt

\* `entry.refcnt += 1` of find_or_alloc_handle (a match) and of dup.
IncRefcnt(s) == [refcnt EXCEPT ![s] = @ + 1]

\* `entry.refcnt = 1` of find_or_alloc_handle and alloc_handle (a free entry).
SetRefcnt(s) == [refcnt EXCEPT ![s] = 1]

\* Faulty decrement: the refcnt is left as it was.
DecRefcntLost(s) == refcnt

\* `entry.refcnt -= 1` of dealloc.
DecRefcnt(s) == [refcnt EXCEPT ![s] = @ - 1]

\* Faulty test: every dealloc finalizes.
NeedsFinalizeAlways(s) == refcnt[s] >= 1

\* `if entry.refcnt == 1` of dealloc: the release of the last handle finalizes.
NeedsFinalize(s) == refcnt[s] = 1

\* Faulty dealloc: a released entry keeps its place in the list.
RelinkNone(rc, s) == [next |-> next, prev |-> prev]

\* Faulty dealloc: the entry moves to the head on every release.
RelinkAlways(rc, s) ==
    IF kind = "mru"
    THEN ListPrepend(ListRemove([next |-> next, prev |-> prev], s), 0, s)
    ELSE [next |-> next, prev |-> prev]

\* Faulty dealloc: the released entry is removed and not put back.
RelinkRemoveOnly(rc, s) ==
    IF kind = "mru" /\ rc[s] = 0
    THEN ListRemove([next |-> next, prev |-> prev], s)
    ELSE [next |-> next, prev |-> prev]

\* MruArena dealloc, `if *entry.refcnt == 0 { remove(); head.prepend() }`,
\* given the table rc after the decrement; ArrayArena has no list.
Relink(rc, s) ==
    IF kind = "mru" /\ rc[s] = 0
    THEN ListPrepend(ListRemove([next |-> next, prev |-> prev], s), 0, s)
    ELSE [next |-> next, prev |-> prev]

\* The release order after dealloc's decrement left the table rc: a slot of
\* the MRU pool that reached refcnt 0 is the latest release.
Released(rc, s) ==
    LET other(x) == x # s
    IN  IF kind = "mru" /\ rc[s] = 0 THEN <<s>> \o SelectSeq(rel, other) ELSE rel

\* The handle an operation returns goes into an Rc owned by the caller.
Issue(t, s) == [held EXCEPT ![t][s] = @ + 1]

\* Rc::drop takes the handle out of the wrapper.
Take(t, s) == [held EXCEPT ![t][s] = @ - 1]

\* The record of an operation: its predicate, the slot of the handle it
\* returned or consumed (0: none), the runs of the initializer, and what
\* finalize did ("none", "inline", or reacquire_after's "begin" and "end").
Event(op, c, s, ninit, fin) ==
    [op |-> op, c |-> c, slot |-> s, ninit |-> ninit, fin |-> fin]

(***************************************************************************)
(* Arena::find_or_alloc                                                    *)
(***************************************************************************)

\* The call: `self.lock()`.
find_or_alloc(t) ==
    /\ pc[t] = "idle"
    /\ SpinlockLock(t)
    /\ pc' = [pc EXCEPT ![t] = "find"]
    /\ UNCHANGED sleepvars /\ UNCHANGED <<kind, refcnt, data, next, prev, held, inflight, finalized, streak, rel, ev>>

\* The body under the lock, with predicate c and an initializer n that
\* writes d; the guard is dropped on return.
find_or_alloc_handle(t) ==
    /\ pc[t] = "find"
    /\ \E c \in Preds, d \in Data :
         LET r == FindResult(c) IN
         /\ r.tag # "hang"
         /\ \/ /\ r.tag = "match"
               /\ refcnt[r.slot] < MaxRef
               /\ refcnt' = IncRefcnt(r.slot)
               /\ data' = data
               /\ held' = Issue(t, r.slot)
               /\ ev' = Event("find", c, r.slot, 0, "none")
            \/ /\ r.tag = "empty"
               /\ refcnt' = SetRefcnt(r.slot)
               /\ data' = [data EXCEPT ![r.slot] = d]
               /\ held' = Issue(t, r.slot)
               /\ ev' = Event("find", c, r.slot, 1, "none")
            \/ /\ r.tag = "none"
               /\ UNCHANGED <<refcnt, data, held>>
               /\ ev' = Event("find", c, 0, 0, "none")
    /\ SpinlockUnlock
    /\ pc' = [pc EXCEPT ![t] = "idle"]
    /\ UNCHANGED sleepvars /\ UNCHANGED <<kind, next, prev, inflight, finalized, streak, rel>>

(***************************************************************************)
(* Arena::alloc                                                            *)
(***************************************************************************)

alloc(t) ==
    /\ pc[t] = "idle"
    /\ SpinlockLock(t)
    /\ pc' = [pc EXCEPT ![t] = "alloc"]
    /\ UNCHANGED sleepvars /\ UNCHANGED <<kind, refcnt, data, next, prev, held, inflight, finalized, streak, rel, ev>>

alloc_handle(t) ==
    /\ pc[t] = "alloc"
    /\ \E d \in Data :
         LET r == AllocResult IN
         /\ r.tag # "hang"
         /\ \/ /\ r.tag = "empty"
               /\ refcnt' = SetRefcnt(r.slot)
               /\ data' = [data EXCEPT ![r.slot] = d]
               /\ held' = Issue(t, r.slot)
               /\ streak' = Min(streak + 1, CAPACITY)
               /\ rel' = rel
               /\ ev' = Event("alloc", {}, r.slot, 1, "none")
            \/ /\ r.tag = "none"
               /\ UNCHANGED <<refcnt, data, held, streak, rel>>
               /\ ev' = Event("alloc", {}, 0, 0, "none")
    /\ SpinlockUnlock
    /\ pc' = [pc EXCEPT ![t] = "idle"]
    /\ UNCHANGED sleepvars /\ UNCHANGED <<kind, next, prev, inflight, finalized>>

(***************************************************************************)
(* Rc::clone and Arena::dup                                                *)
(***************************************************************************)

\* Faulty clone: dup runs without `self.lock()`.
Rc_clone_unlocked(t) ==
    /\ pc[t] = "idle"
    /\ \E s \in Slots : held[t][s] > 0 /\ refcnt[s] < MaxRef
    /\ pc' = [pc EXCEPT ![t] = "dup"]
    /\ UNCHANGED sleepvars /\ UNCHANGED <<kind, refcnt, data, next, prev, lk, held, inflight, finalized, streak, rel, ev>>

\* Rc::clone calls tag.dup(&self.inner), which starts with `self.lock()`.
Rc_clone(t) ==
    /\ pc[t] = "idle"
    /\ \E s \in Slots : held[t][s] > 0 /\ refcnt[s] < MaxRef
    /\ SpinlockLock(t)
    /\ pc' = [pc EXCEPT ![t] = "dup"]
    /\ UNCHANGED sleepvars /\ UNCHANGED <<kind, refcnt, data, next, prev, held, inflight, finalized, streak, rel, ev>>

\* Faulty dup: the duplicated entry is moved to the head of the MRU list.
dup_touch(t) ==
    /\ pc[t] = "dup"
    /\ \E s \in Slots :
         /\ held[t][s] > 0
         /\ refcnt[s] < MaxRef
         /\ refcnt' = IncRefcnt(s)
         /\ held' = Issue(t, s)
         /\ ev' = Event("dup", {}, s, 0, "none")
         /\ next' = RelinkAlways(refcnt, s).next
         /\ prev' = RelinkAlways(refcnt, s).prev
    /\ SpinlockUnlock
    /\ pc' = [pc EXCEPT ![t] = "idle"]
    /\ UNCHANGED sleepvars /\ UNCHANGED <<kind, data, inflight, finalized, streak, rel>>

\* dup under the lock: `refcnt += 1` on the entry of the given handle, and a
\* new handle with the same pointer; the guard is dropped on return.
dup(t) ==
    /\ pc[t] = "dup"
    /\ \E s \in Slots :
         /\ held[t][s] > 0
         /\ refcnt[s] < MaxRef
         /\ refcnt' = IncRefcnt(s)
         /\ held' = Issue(t, s)
         /\ ev' = Event("dup", {}, s, 0, "none")
    /\ SpinlockUnlock
    /\ pc' = [pc EXCEPT ![t] = "idle"]
    /\ UNCHANGED sleepvars /\ UNCHANGED <<kind, data, next, prev, inflight, finalized, streak, rel>>

(***************************************************************************)
(* Rc::drop and Arena::dealloc                                             *)
(***************************************************************************)

\* Rc::drop calls tag.dealloc(handle), which starts with `self.lock()`.
Rc_drop(t) ==
    /\ pc[t] = "idle"
    /\ \E s \in Slots : held[t][s] > 0
    /\ SpinlockLock(t)
    /\ pc' = [pc EXCEPT ![t] = "dealloc"]
    /\ UNCHANGED sleepvars /\ UNCHANGED <<kind, refcnt, data, next, prev, held, inflight, finalized, streak, rel, ev>>

\* Drop for ArrayPtr and for MruPtr: a raw handle that goes out of scope
\* anywhere but in dealloc panics.  The panic fires inside drop, before any
\* field of the pool is touched, and the thread never returns from it.
Ptr_drop(t) ==
    /\ pc[t] = "idle"
    /\ \E s \in Slots : held[t][s] > 0
    /\ pc' = [pc EXCEPT ![t] = "panic"]
    /\ UNCHANGED sleepvars /\ UNCHANGED <<kind, refcnt, data, next, prev, lk, held, inflight, finalized, streak, rel, ev>>

\* The end of dealloc, if the handle were left to go out of scope.
HandleDropped(t) == [pc EXCEPT ![t] = "panic"]

\* `mem::forget(handle)` at the end of dealloc: the handle is consumed
\* without running its Drop, and dealloc returns.
HandleForgotten(t) == [pc EXCEPT ![t] = "idle"]

\* The decrement, the MRU relink and the return of dealloc for slot s, after
\* finalize (fin # "none") left d in the slot.
DeallocTail(t, s, d, fin) ==
    LET rc == DecRefcnt(s)
        L == Relink(rc, s)
    IN  /\ refcnt' = rc
        /\ data' = [data EXCEPT ![s] = d]
        /\ next' = L.next
        /\ prev' = L.prev
        /\ finalized' = [finalized EXCEPT ![s] = rc[s] # 0 /\ (@ \/ fin # "none")]
        /\ streak' = 0
        /\ rel' = Released(rc, s)
        /\ ev' = Event("dealloc", {}, s, 0, fin)
        /\ SpinlockUnlock
        /\ pc' = HandleForgotten(t)

\* Faulty reacquire_after: the closure runs with the lock still held.
KeepLockForClosure == lk' = lk

\* reacquire_after hands the guard to SpinlockGuard::reacquire_after, which
\* gives up the lock before it runs the closure.
ReleaseForClosure == SpinlockUnlock

\* dealloc under the lock.  finalize is the stored object's hook: it may
\* change the object, and it may call reacquire_after, which gives up the
\* lock while its closure runs.
dealloc(t) ==
    /\ pc[t] = "dealloc"
    /\ \E s \in Slots :
         /\ held[t][s] > 0
         /\ held' = Take(t, s)
         /\ IF NeedsFinalize(s)
            THEN \/ /\ \E d \in Data : DeallocTail(t, s, d, "inline")
                    /\ UNCHANGED sleepvars /\ UNCHANGED <<kind, inflight>>
                 \/ /\ ReleaseForClosure
                    /\ pc' = [pc EXCEPT ![t] = "unlocked"]
                    /\ inflight' = [inflight EXCEPT ![t] = s]
                    /\ ev' = Event("dealloc", {}, s, 0, "begin")
                    /\ UNCHANGED sleepvars /\ UNCHANGED <<kind, refcnt, data, next, prev, finalized, streak, rel>>
            ELSE /\ DeallocTail(t, s, data[s], "none")
                 /\ UNCHANGED sleepvars /\ UNCHANGED <<kind, inflight>>

\* reacquire_after: the closure has run with the lock released; the lock is
\* taken again before reacquire_after returns.
reacquire_after(t) ==
    /\ pc[t] = "unlocked"
    /\ SpinlockLock(t)
    /\ pc' = [pc EXCEPT ![t] = "relocked"]
    /\ UNCHANGED sleepvars /\ UNCHANGED <<kind, refcnt, data, next, prev, held, inflight, finalized, streak, rel, ev>>

\* finalize returns to dealloc, which decrements and returns.
dealloc_finish(t) ==
    /\ pc[t] = "relocked"
    /\ \E d \in Data : DeallocTail(t, inflight[t], d, "end")
    /\ inflight' = [inflight EXCEPT ![t] = 0]
    /\ UNCHANGED sleepvars /\ UNCHANGED <<kind, held>>

Next ==
    \E t \in Threads :
        \/ find_or_alloc(t)
        \/ find_or_alloc_handle(t)
        \/ alloc(t)
        \/ alloc_handle(t)
        \/ Rc_clone(t)
        \/ dup(t)
        \/ Rc_drop(t)
        \/ Ptr_drop(t)
        \/ dealloc(t)
        \/ reacquire_after(t)
        \/ dealloc_finish(t)

Spec == Init /\ [][Next]_vars

\* The steps a thread takes while it holds the lock; the lock has one
\* holder, so at most one thread has such a step to take.
LockedStep ==
    \E t \in Threads :
        \/ find_or_alloc_handle(t)
        \/ alloc_handle(t)
        \/ dup(t)
        \/ dealloc(t)
        \/ dealloc_finish(t)

\* The array pool with a fair lock, threads that keep running while they
\* hold the lock, and closures of reacquire_after that terminate: a thread
\* that waits for the lock gets it if the lock is free again and again.
\* (Both pools take and give up the lock at the same points of the same
\* operations; the recency list plays no part in it.)
ArrayInit == Init /\ kind = "array"

FairSpec ==
    /\ ArrayInit
    /\ [][Next]_vars
    /\ WF_vars(LockedStep)
    /\ \A t \in Threads : SF_vars(reacquire_after(t))

(***************************************************************************)
(* The sleep-locks (sleeplock.rs).  RawSpinlock, WaitChannel and myproc    *)
(* are other modules of the kernel: the spinlock is taken when free,       *)
(* WaitChannel::sleep gives up the spinlock and sleeps until a wakeup and  *)
(* takes the spinlock again before it returns, wakeup wakes every sleeper. *)
(***************************************************************************)

SetPc(p, l) == [proc EXCEPT ![p].pc = l]

\* RawSpinlock::acquire / release on the lk of a sleep-lock record.
RawAcquire(l, p) == [l EXCEPT !.lk = p]
RawRelease(l) == [l EXCEPT !.lk = 0]

\* WaitChannel::sleep(lk): the caller joins the sleepers and gives up lk.
ChanSleep(l, p) == [l EXCEPT !.waitchannel = @ \cup {p}, !.lk = 0]
\* WaitChannel::wakeup.
ChanWakeup(l) == [l EXCEPT !.waitchannel = {}]

\* Faulty acquire: the lock is taken without a look at `locked`.
IsLockedNever == FALSE

\* `while (*self).locked != 0` of Sleeplock::acquire.
IsLocked == sleeplock.locked # 0

\* `while *guard != -1` of SleeplockWIP::lock.
WipLocked == wip.spinlock # -1

\* Sleeplock::acquire is called: `lk.acquire()`.
Sleeplock_acquire(p) ==
    /\ proc[p].pc = "idle"
    /\ sleeplock.lk = 0
    /\ sleeplock' = RawAcquire(sleeplock, p)
    /\ proc' = SetPc(p, "acquire")
    /\ UNCHANGED <<wip, sev>> /\ UNCHANGED arena

\* The loop test of acquire under lk: sleep while locked; else set locked
\* and pid, release lk and return.
acquire_body(p) ==
    /\ proc[p].pc = "acquire"
    /\ IF IsLocked
       THEN /\ sleeplock' = ChanSleep(sleeplock, p)
            /\ proc' = SetPc(p, "sleep")
            /\ sev' = sev
       ELSE /\ sleeplock' = RawRelease([sleeplock EXCEPT !.locked = 1, !.pid = p])
            /\ proc' = [proc EXCEPT ![p].pc = "idle", ![p].acquired = TRUE]
            /\ sev' = [op |-> "acquire", p |-> p, r |-> TRUE]
    /\ UNCHANGED wip /\ UNCHANGED arena

\* WaitChannel::sleep returns in acquire: woken, with lk taken again.
acquire_wake(p) ==
    /\ proc[p].pc = "sleep"
    /\ p \notin sleeplock.waitchannel
    /\ sleeplock.lk = 0
    /\ sleeplock' = RawAcquire(sleeplock, p)
    /\ proc' = SetPc(p, "acquire")
    /\ UNCHANGED <<wip, sev>> /\ UNCHANGED arena

\* Sleeplock::release is called by a process whose acquire has returned.
Sleeplock_release(p) ==
    /\ proc[p].pc = "idle" /\ proc[p].acquired
    /\ sleeplock.lk = 0
    /\ sleeplock' = RawAcquire(sleeplock, p)
    /\ proc' = SetPc(p, "release")
    /\ UNCHANGED <<wip, sev>> /\ UNCHANGED arena

release_body(p) ==
    /\ proc[p].pc = "release"
    /\ sleeplock' = RawRelease(ChanWakeup([sleeplock EXCEPT !.locked = 0, !.pid = 0]))
    /\ proc' = [proc EXCEPT ![p].pc = "idle", ![p].acquired = FALSE]
    /\ sev' = [op |-> "release", p |-> p, r |-> TRUE]
    /\ UNCHANGED wip /\ UNCHANGED arena

\* Sleeplock::holding is called by any process.
Sleeplock_holding(p) ==
    /\ proc[p].pc = "idle"
    /\ sleeplock.lk = 0
    /\ sleeplock' = RawAcquire(sleeplock, p)
    /\ proc' = SetPc(p, "holding")
    /\ UNCHANGED <<wip, sev>> /\ UNCHANGED arena

holding_body(p) ==
    /\ proc[p].pc = "holding"
    /\ sev' = [op |-> "holding", p |-> p,
                r |-> (sleeplock.locked # 0 /\ sleeplock.pid = p)]
    /\ sleeplock' = RawRelease(sleeplock)
    /\ proc' = SetPc(p, "idle")
    /\ UNCHANGED wip /\ UNCHANGED arena

\* SleeplockWIP::lock is called: `self.spinlock.lock()`.
SleeplockWIP_lock(p) ==
    /\ proc[p].pc = "idle"
    /\ wip.lk = 0
    /\ wip' = RawAcquire(wip, p)
    /\ proc' = SetPc(p, "lock")
    /\ UNCHANGED <<sleeplock, sev>> /\ UNCHANGED arena

\* The loop test of lock under the spinlock: sleep while the value is not
\* -1; else store the pid and return a SleepLockGuard (the spinlock's
\* guard is dropped on return).
lock_body(p) ==
    /\ proc[p].pc = "lock"
    /\ IF WipLocked
       THEN /\ wip' = ChanSleep(wip, p)
            /\ proc' = SetPc(p, "lock_sleep")
            /\ sev' = sev
       ELSE /\ wip' = RawRelease([wip EXCEPT !.spinlock = p])
            /\ proc' = [proc EXCEPT ![p].pc = "idle", ![p].guard = TRUE]
            /\ sev' = [op |-> "lock", p |-> p, r |-> TRUE]
    /\ UNCHANGED sleeplock /\ UNCHANGED arena

\* WaitChannel::sleep returns in lock: woken, with the spinlock taken again.
lock_wake(p) ==
    /\ proc[p].pc = "lock_sleep"
    /\ p \notin wip.waitchannel
    /\ wip.lk = 0
    /\ wip' = RawAcquire(wip, p)
    /\ proc' = SetPc(p, "lock")
    /\ UNCHANGED <<sleeplock, sev>> /\ UNCHANGED arena

\* Drop for SleepLockGuard starts: `self.lock.spinlock.lock()`.
SleepLockGuard_drop(p) ==
    /\ proc[p].pc = "idle" /\ proc[p].guard
    /\ wip.lk = 0
    /\ wip' = RawAcquire(wip, p)
    /\ proc' = SetPc(p, "drop")
    /\ UNCHANGED <<sleeplock, sev>> /\ UNCHANGED arena

\* `*guard = -1; wakeup(); drop(guard)`.
drop_body(p) ==
    /\ proc[p].pc = "drop"
    /\ wip' = RawRelease(ChanWakeup([wip EXCEPT !.spinlock = -1]))
    /\ proc' = [proc EXCEPT ![p].pc = "idle", ![p].guard = FALSE]
    /\ sev' = [op |-> "drop", p |-> p, r |-> TRUE]
    /\ UNCHANGED sleeplock /\ UNCHANGED arena

SleepNext ==
    \E p \in Procs :
        \/ Sleeplock_acquire(p)
        \/ acquire_body(p)
        \/ acquire_wake(p)
        \/ Sleeplock_release(p)
        \/ release_body(p)
        \/ Sleeplock_holding(p)
        \/ holding_body(p)
        \/ SleeplockWIP_lock(p)
        \/ lock_body(p)
        \/ lock_wake(p)
        \/ SleepLockGuard_drop(p)
        \/ drop_body(p)

\* The sleep-locks on their own, next to a pool that nobody uses.
SleepInit == ArrayInit /\ data = [s \in Slots |-> 1]

SleepSpec == SleepInit /\ [][SleepNext]_vars

TypeOK ==
    /\ kind \in {"array", "mru"}
    /\ refcnt \in [Slots -> 0..MaxRef]
    /\ data \in [Slots -> Data]
    /\ next \in [Nodes -> Nodes]
    /\ prev \in [Nodes -> Nodes]
    /\ lk \in 0..NThreads
    /\ pc \in [Threads -> {"idle", "find", "alloc", "dup", "dealloc", "unlocked", "relocked", "panic"}]
    /\ held \in [Threads -> [Slots -> 0..MaxRef]]
    /\ inflight \in [Threads -> 0..CAPACITY]
    /\ finalized \in [Slots -> BOOLEAN]
    /\ streak \in 0..CAPACITY
    /\ rel \in Seq(Slots) /\ Len(rel) <= CAPACITY
    /\ sleeplock \in [locked : {0, 1}, pid : {0} \cup Procs, lk : {0} \cup Procs,
                       waitchannel : SUBSET Procs]
    /\ wip \in [spinlock : {-1} \cup Procs, lk : {0} \cup Procs, waitchannel : SUBSET Procs]
    /\ proc \in [Procs -> [pc : {"idle", "acquire", "sleep", "release", "holding",
                                  "lock", "lock_sleep", "drop"},
                            acquired : BOOLEAN, guard : BOOLEAN]]
    /\ sev \in [op : {"none", "acquire", "release", "holding", "lock", "drop"},
                 p : {0} \cup Procs, r : BOOLEAN]

(***************************************************************************)
(* Vocabulary of the properties.                                           *)
(***************************************************************************)

RECURSIVE HeldUpTo(_, _)
HeldUpTo(t, s) == IF t = 0 THEN 0 ELSE held[t][s] + HeldUpTo(t - 1, s)

\* Handles of slot s issued and not yet deallocated: those inside wrappers,
\* and those a dealloc has taken and not yet given back to the pool.
Outstanding(s) == HeldUpTo(NThreads, s) + Cardinality({t \in Threads : inflight[t] = s})

RECURSIVE RefcntUpTo(_)
RefcntUpTo(s) == IF s = 0 THEN 0 ELSE refcnt[s] + RefcntUpTo(s - 1)

RECURSIVE OutstandingUpTo(_)
OutstandingUpTo(s) == IF s = 0 THEN 0 ELSE Outstanding(s) + OutstandingUpTo(s - 1)

\* The steps in which thread t runs the body of an operation.
FindStep(t) == pc[t] = "find" /\ pc'[t] = "idle"
AllocStep(t) == pc[t] = "alloc" /\ pc'[t] = "idle"
DupStep(t) == pc[t] = "dup" /\ pc'[t] = "idle"
DeallocStep(t) == pc[t] = "dealloc" /\ pc'[t] # "dealloc"
PanicStep(t) == pc[t] = "idle" /\ pc'[t] = "panic"
\* Slot s reached refcnt 0 at some time (MRU pool).
InRel(s) == \E i \in 1..Len(rel) : rel[i] = s
\* The place of a released slot in the release order (1: the latest).
RelPos(s) == CHOOSE i \in 1..Len(rel) : rel[i] = s
\* Slot a was released less recently than slot b; a slot never released
\* is older than every released one.
Older(a, b) == IF InRel(a) THEN InRel(b) /\ RelPos(a) > RelPos(b) ELSE InRel(b)
RECURSIVE ListFrom(_, _)
\* The entries of the MRU list from node n to the sentinel.
ListFrom(n, fuel) ==
    IF n = 0 \/ fuel = 0 THEN <<>> ELSE <<n>> \o ListFrom(next[n], fuel - 1)
\* The MRU list in head-to-tail order.
Order == ListFrom(next[0], CAPACITY)
RECURSIVE ListBack(_, _)
\* The entries of the MRU list from node n back to the sentinel.
ListBack(n, fuel) ==
    IF n = 0 \/ fuel = 0 THEN <<>> ELSE <<n>> \o ListBack(prev[n], fuel - 1)
\* The MRU list in tail-to-head order.
OrderBack == ListBack(prev[0], CAPACITY)
FinishStep(t) == pc[t] = "relocked" /\ pc'[t] = "idle"

\* Thread t is inside a pool operation: it has called it and not returned.
InOp(t) == pc[t] \notin {"idle", "panic"}

\* finalize of slot s is in progress in thread t's dealloc.
Finalizing(t, s) == pc[t] \in {"unlocked", "relocked"} /\ inflight[t] = s

(***************************************************************************)
(* C1: each slot's refcnt is the number of outstanding handles of the      *)
(* slot, so refcnt is 0 iff no live handle references the slot, and the    *)
(* refcnts sum to the handles issued and not released.                     *)
(***************************************************************************)
C1_RefcntIsOutstanding ==
    /\ \A s \in Slots : refcnt[s] = Outstanding(s)
    /\ \A s \in Slots : refcnt[s] = 0 <=> Outstanding(s) = 0
    /\ RefcntUpTo(CAPACITY) = OutstandingUpTo(CAPACITY)

\* A slot shared by two threads right after a release.
C1_Witness ==
    /\ ev.op = "dealloc"
    /\ \E s \in Slots : refcnt[s] = 2 /\ held[1][s] = 1 /\ held[2][s] = 1

(***************************************************************************)
(* C2 as stated: every step that takes a slot's refcnt from 0 to 1 runs    *)
(* the initializer once on that slot, and find_or_alloc returns a slot     *)
(* without running init only if the slot had refcnt >= 1 and satisfied the *)
(* predicate.                                                              *)
(***************************************************************************)
C2_Original ==
    [][ /\ \A s \in Slots : refcnt[s] = 0 /\ refcnt'[s] = 1
                               => ev'.slot = s /\ ev'.ninit = 1
        /\ \A t \in Threads : FindStep(t) /\ ev'.slot # 0 /\ ev'.ninit = 0
                               => refcnt[ev'.slot] >= 1 /\ data[ev'.slot] \in ev'.c
      ]_vars

(***************************************************************************)
(* C2 amended: a slot leaves refcnt 0 only by alloc or find_or_alloc, to   *)
(* refcnt 1.  In the array pool that step always runs init once on the     *)
(* slot.  In the MRU pool it runs init once, except that find_or_alloc     *)
(* takes a free slot whose stored data satisfies the predicate from 0 to 1 *)
(* without init.  Init runs only on such a step, and a find_or_alloc that  *)
(* returns a slot without init returns one that satisfied the predicate    *)
(* (in the array pool: one with refcnt >= 1).                              *)
(***************************************************************************)
C2_InitOnBirth ==
    [][ /\ \A s \in Slots : refcnt[s] = 0 /\ refcnt'[s] # 0
             => /\ refcnt'[s] = 1
                /\ \E t \in Threads : FindStep(t) \/ AllocStep(t)
                /\ ev'.slot = s
                /\ \/ ev'.ninit = 1
                   \/ kind = "mru" /\ ev'.op = "find" /\ ev'.ninit = 0 /\ data[s] \in ev'.c
        /\ \A t \in Threads : FindStep(t) \/ AllocStep(t)
             => /\ ev'.ninit \in {0, 1}
                /\ ev'.ninit = 1 => ev'.slot # 0 /\ refcnt[ev'.slot] = 0 /\ refcnt'[ev'.slot] = 1
        /\ \A t \in Threads : FindStep(t) /\ ev'.slot # 0 /\ ev'.ninit = 0
             => /\ data[ev'.slot] \in ev'.c
                /\ kind = "array" => refcnt[ev'.slot] >= 1
      ]_vars

\* The MRU pool has just handed out a free slot on a match, without init,
\* while another slot was born by init.
C2_Witness ==
    /\ kind = "mru"
    /\ ev.op = "find" /\ ev.slot # 0 /\ ev.ninit = 0
    /\ refcnt[ev.slot] = 1
    /\ \E s \in Slots : s # ev.slot /\ refcnt[s] >= 1

(***************************************************************************)
(* C3: finalize runs only for the release of the last reference: a dealloc *)
(* that ran finalize returns with the slot at refcnt 0 and no handle to it *)
(* outstanding, so no slot is both finalized and still referenced.         *)
(***************************************************************************)
C3_FinalizeOnlyLastRelease ==
    \A s \in Slots : ~finalized[s]

(***************************************************************************)
(* C4: dealloc runs finalize iff the slot's refcnt is 1 when dealloc reads *)
(* it, the decrement comes after finalize has completed, and while a       *)
(* slot's finalize is in progress (the lock released or taken again) the   *)
(* slot's refcnt is at least 1, so no thread sees it free.                 *)
(***************************************************************************)
C4_FinalizeBeforeFree ==
    [][ /\ \A t \in Threads : DeallocStep(t)
             => ((ev'.fin # "none") <=> refcnt[ev'.slot] = 1)
        /\ \A t \in Threads : DeallocStep(t) /\ ev'.fin = "begin"
             => refcnt'[ev'.slot] = refcnt[ev'.slot]
        /\ \A t \in Threads : (DeallocStep(t) \/ FinishStep(t)) /\ ev'.fin \in {"inline", "end"}
             => refcnt[ev'.slot] >= 1 /\ refcnt'[ev'.slot] = refcnt[ev'.slot] - 1
        /\ \A t \in Threads, s \in Slots : Finalizing(t, s)' => refcnt'[s] >= 1
      ]_vars

\* While one thread's finalize runs unlocked, another thread's alloc has
\* returned a different slot.
C4_Witness ==
    \E t \in Threads :
        /\ pc[t] = "unlocked"
        /\ ev.op = "alloc" /\ ev.slot # 0 /\ ev.slot # inflight[t]

(***************************************************************************)
(* C5: find_or_alloc returns None exactly when no slot satisfies the       *)
(* predicate and no slot has refcnt 0, and then it changes no refcnt, no   *)
(* data and no list link and does not run init.                            *)
(***************************************************************************)
C5_NoneIffFullAndNoMatch ==
    [][ \A t \in Threads : FindStep(t)
          => /\ (ev'.slot = 0) <=> /\ \A s \in Slots : data[s] \notin ev'.c
                                   /\ \A s \in Slots : refcnt[s] # 0
             /\ ev'.slot = 0 => /\ UNCHANGED <<refcnt, data, next, prev, held>>
                                /\ ev'.ninit = 0
      ]_vars

\* find_or_alloc has just returned None.
C5_Witness ==
    /\ ev.op = "find" /\ ev.slot = 0
    /\ \A s \in Slots : refcnt[s] >= 1 /\ data[s] \notin ev.c

(***************************************************************************)
(* C6: alloc fails iff every slot has refcnt >= 1; a failing alloc runs no *)
(* init and changes nothing in the table; after CAPACITY successful allocs *)
(* with no release in between the pool is full and the next alloc fails.   *)
(***************************************************************************)
C6_AllocFailsIffFull ==
    [][ /\ \A t \in Threads : AllocStep(t)
             => /\ (ev'.slot = 0) <=> \A s \in Slots : refcnt[s] >= 1
                /\ ev'.slot = 0 => /\ UNCHANGED <<refcnt, data, next, prev, held>>
                                   /\ ev'.ninit = 0
                /\ streak = CAPACITY => ev'.slot = 0
        /\ streak' = CAPACITY => \A s \in Slots : refcnt'[s] >= 1
      ]_vars

\* CAPACITY allocs in a row have succeeded and the next one has failed.
C6_Witness ==
    ev.op = "alloc" /\ ev.slot = 0 /\ streak = CAPACITY

(***************************************************************************)
(* C7 as stated: from the call of a pool operation to its return, no other *)
(* thread's operation changes the table; this is claimed of dealloc calls  *)
(* whose finalize uses reacquire_after too.                                *)
(***************************************************************************)
C7_Original ==
    [][ \A t \in Threads : InOp(t) /\ pc'[t] = pc[t] => UNCHANGED pool ]_vars

(***************************************************************************)
(* C7 amended: the table changes only in steps of the thread that holds    *)
(* the lock, and while one thread holds the lock no other thread takes a   *)
(* step of a pool operation.  find_or_alloc, alloc, dup, and a dealloc     *)
(* whose finalize keeps the lock, are one such locked section each; a      *)
(* dealloc whose finalize uses reacquire_after is two, and other threads'  *)
(* operations take effect between them.                                    *)
(***************************************************************************)
C7_LockedSections ==
    [][ /\ pool' # pool => lk # 0
        /\ \A t \in Threads : lk = t
             => \/ /\ pc'[t] # pc[t]
                   /\ \A u \in Threads \ {t} : pc'[u] = pc[u] /\ held'[u] = held[u]
                \/ /\ \E u \in Threads \ {t} : PanicStep(u)
                   /\ pc'[t] = pc[t] /\ lk' = lk /\ held' = held /\ pool' = pool
        /\ \A t \in Threads : pc[t] \in {"find", "alloc", "dup"} => pc'[t] \in {pc[t], "idle"}
      ]_vars

\* During the unlocked part of one thread's dealloc another thread's
\* operation has taken effect.
C7_Witness ==
    \E t \in Threads :
        /\ pc[t] = "unlocked"
        /\ ev.op \in {"find", "alloc", "dup"} /\ ev.slot # 0

(***************************************************************************)
(* C8: a thread inside reacquire_after's closure does not hold the lock,   *)
(* it holds the lock again when reacquire_after has returned, and every    *)
(* thread that runs under the lock is the one holder of the lock.          *)
(***************************************************************************)
C8_ReacquireAfter ==
    \A t \in Threads :
        /\ pc[t] = "unlocked" => lk # t
        /\ pc[t] = "relocked" => lk = t
        /\ pc[t] \in {"find", "alloc", "dup", "dealloc"} => lk = t

\* reacquire_after has returned in one thread after another thread's
\* operation ran while the lock was released.
C8_Witness ==
    \E t \in Threads : pc[t] = "relocked" /\ ev.op # "dealloc"

(***************************************************************************)
(* C9: a clone is one dup of the wrapped slot; a drop consumes one wrapper *)
(* and deallocates its handle once; a refcnt goes down only by one, for    *)
(* one handle consumed; and a slot none of whose wrappers is left (and no  *)
(* drop of which is still running) has refcnt 0.                           *)
(***************************************************************************)
C9_WrapperDiscipline ==
    [][ /\ \A t \in Threads : DupStep(t)
             => \E s \in Slots : /\ held[t][s] >= 1
                                 /\ held' = [held EXCEPT ![t][s] = @ + 1]
                                 /\ refcnt' = [refcnt EXCEPT ![s] = @ + 1]
        /\ \A t \in Threads : DeallocStep(t)
             => \E s \in Slots : /\ held[t][s] >= 1
                                 /\ held' = [held EXCEPT ![t][s] = @ - 1]
                                 /\ \/ refcnt' = [refcnt EXCEPT ![s] = @ - 1] /\ inflight' = inflight
                                    \/ refcnt' = refcnt /\ inflight' = [inflight EXCEPT ![t] = s]
        /\ \A s \in Slots : refcnt'[s] < refcnt[s]
             => /\ refcnt'[s] = refcnt[s] - 1
                /\ Outstanding(s)' = Outstanding(s) - 1
        /\ \A s \in Slots : Outstanding(s)' = 0 => refcnt'[s] = 0
      ]_vars

\* The last wrapper of a slot has been dropped (finalize ran) and the slot
\* is free, while some thread owns two wrappers of another slot.
C9_Witness ==
    /\ ev.op = "dealloc" /\ ev.fin \in {"inline", "end"}
    /\ refcnt[ev.slot] = 0 /\ Outstanding(ev.slot) = 0
    /\ \E t \in Threads, s \in Slots : held[t][s] = 2

(***************************************************************************)
(* C10: a find_or_alloc with an always-true predicate that directly        *)
(* follows a successful one returns the same slot: it increments that      *)
(* slot's refcnt, runs no init and changes nothing else in the table.      *)
(***************************************************************************)
C10_SameSlotTwice ==
    [][ \A t \in Threads :
          FindStep(t) /\ ev.op = "find" /\ ev.c = Data /\ ev.slot # 0 /\ ev'.c = Data
            => /\ ev'.slot = ev.slot
               /\ ev'.ninit = 0
               /\ refcnt' = [refcnt EXCEPT ![ev.slot] = @ + 1]
               /\ UNCHANGED <<data, next, prev>>
      ]_vars

\* The second of two always-true find_or_alloc calls has returned the slot
\* of the first.
C10_Witness ==
    /\ ev.op = "find" /\ ev.c = Data /\ ev.slot # 0 /\ ev.ninit = 0
    /\ refcnt[ev.slot] = 2
    /\ \E t \in Threads : held[t][ev.slot] = 2

(***************************************************************************)
(* C11: MRU warm reuse.  When slot E of the MRU pool was released to       *)
(* refcnt 0 and is still free, and the predicate of a find_or_alloc holds  *)
(* of E's stored data and of no other slot's, the call returns E with      *)
(* refcnt 1, runs no initializer and changes no other slot, whatever other *)
(* slots are free.                                                         *)
(***************************************************************************)
C11_WarmReuse ==
    [][ \A t \in Threads : FindStep(t) /\ kind = "mru"
          => \A E \in Slots :
               ( /\ InRel(E) /\ refcnt[E] = 0
                 /\ data[E] \in ev'.c
                 /\ \A s \in Slots \ {E} : data[s] \notin ev'.c )
               => /\ ev'.op = "find" /\ ev'.slot = E /\ ev'.ninit = 0
                  /\ refcnt' = [refcnt EXCEPT ![E] = 1]
                  /\ data' = data
                  /\ held' = [held EXCEPT ![t][E] = @ + 1]
      ]_vars

\* A released slot has been handed out again by its stored data, without
\* the initializer, while another slot that does not match was free.
C11_Witness ==
    /\ kind = "mru" /\ ev.op = "find" /\ ev.ninit = 0
    /\ \E E \in Slots :
         /\ ev.slot = E /\ refcnt[E] = 1 /\ InRel(E) /\ data[E] \in ev.c
         /\ \E s \in Slots \ {E} : refcnt[s] = 0 /\ data[s] \notin ev.c

(***************************************************************************)
(* C12: MRU eviction order.  A successful alloc on the MRU pool returns a  *)
(* slot of refcnt 0 such that no other slot of refcnt 0 was released less  *)
(* recently (a slot never released being older than any released one): of  *)
(* two free slots A and B with A released before B, alloc returns A.       *)
(***************************************************************************)
C12_EvictionOrder ==
    [][ \A t \in Threads : AllocStep(t) /\ kind = "mru" /\ ev'.slot # 0
          => /\ refcnt[ev'.slot] = 0
             /\ \A B \in Slots \ {ev'.slot} : refcnt[B] = 0 => ~Older(B, ev'.slot)
             /\ \A A \in Slots, B \in Slots :
                  ( /\ A # B /\ refcnt[A] = 0 /\ refcnt[B] = 0
                    /\ \A s \in Slots \ {A, B} : refcnt[s] # 0
                    /\ InRel(A) /\ InRel(B) /\ RelPos(A) > RelPos(B) )
                  => ev'.slot = A
      ]_vars

\* alloc has taken the earlier released of two released slots; the later
\* released one is still free.
C12_Witness ==
    /\ kind = "mru" /\ ev.op = "alloc" /\ ev.slot # 0 /\ refcnt[ev.slot] = 1
    /\ \E B \in Slots \ {ev.slot} :
         /\ refcnt[B] = 0
         /\ InRel(ev.slot) /\ InRel(B) /\ RelPos(ev.slot) > RelPos(B)

(***************************************************************************)
(* C13: alloc on the array pool takes the slot of lowest index whose       *)
(* refcnt is 0: it sets that refcnt to 1, runs the initializer once on it  *)
(* and leaves every other slot's refcnt and data as they were.  So when    *)
(* one slot of a full pool is released, the next alloc succeeds and takes  *)
(* exactly that slot, and the other handles stay valid.                    *)
(***************************************************************************)
C13_ArrayAllocLowest ==
    [][ \A t \in Threads : AllocStep(t) /\ kind = "array"
          => /\ (\E s \in Slots : refcnt[s] = 0) => ev'.slot # 0
             /\ ev'.slot # 0
                  => /\ refcnt[ev'.slot] = 0
                     /\ \A s \in Slots : s < ev'.slot => refcnt[s] # 0
                     /\ refcnt' = [refcnt EXCEPT ![ev'.slot] = 1]
                     /\ ev'.ninit = 1
                     /\ \A s \in Slots \ {ev'.slot} : data'[s] = data[s]
                     /\ held' = [held EXCEPT ![t][ev'.slot] = @ + 1]
                     /\ \A u \in Threads \ {t} : held'[u] = held[u]
      ]_vars

\* The pool was full, slot 1 was released, and the next alloc took slot 1
\* again while the handle of slot 2 is still out.
C13_Witness ==
    /\ kind = "array" /\ ev.op = "alloc" /\ ev.slot = 1 /\ ev.ninit = 1
    /\ streak = 1
    /\ \A s \in Slots : refcnt[s] >= 1
    /\ \E u \in Threads : held[u][2] >= 1

(***************************************************************************)
(* C14: a raw handle (ArrayPtr, MruPtr) that is dropped anywhere but in    *)
(* dealloc ends its thread in the panic state and changes no refcnt (nor   *)
(* any other field of the pool); dealloc, and so the drop of an Rc, uses   *)
(* up the handle and never reaches the panic state.                        *)
(***************************************************************************)
C14_RawDropPanics ==
    [][ \A t \in Threads :
          /\ PanicStep(t)
               => /\ \E s \in Slots : held[t][s] > 0
                  /\ refcnt' = refcnt /\ pool' = pool /\ lk' = lk /\ held' = held
          /\ pc'[t] = "panic" => pc[t] \in {"idle", "panic"}
          /\ pc[t] = "panic" => pc'[t] = "panic"
          /\ pc[t] \in {"dealloc", "relocked"} /\ pc'[t] # pc[t]
               => /\ pc'[t] \in {"idle", "unlocked"}
                  /\ \E s \in Slots :
                       /\ ev'.slot = s
                       /\ pc'[t] = "idle" => Outstanding(s)' = Outstanding(s) - 1
      ]_vars

\* One thread has panicked on a raw handle, whose slot is still counted,
\* and another thread's Rc has been dropped through dealloc since.
C14_Witness ==
    \E t \in Threads, u \in Threads :
        /\ pc[t] = "panic" /\ \E s \in Slots : held[t][s] > 0 /\ refcnt[s] >= 1
        /\ u # t /\ pc[u] = "idle" /\ ev.op = "dealloc" /\ ev.fin \in {"none", "inline", "end"}

(***************************************************************************)
(* C15: find_or_alloc on the array pool, when some allocated slot          *)
(* satisfies the predicate, returns the allocated matching slot of lowest  *)
(* index with its refcnt incremented and without running the initializer,  *)
(* also when a free slot has a lower index; a free slot is initialized     *)
(* only when no allocated slot of the whole array matches.                 *)
(***************************************************************************)
C15_MatchBeyondFreeSlot ==
    [][ \A t \in Threads : FindStep(t) /\ kind = "array"
          => \A M \in Slots :
               ( /\ refcnt[M] >= 1 /\ refcnt[M] < MaxRef /\ data[M] \in ev'.c
                 /\ \A s \in Slots : s < M => ~(refcnt[s] >= 1 /\ data[s] \in ev'.c) )
               => /\ ev'.slot = M /\ ev'.ninit = 0
                  /\ refcnt' = [refcnt EXCEPT ![M] = @ + 1]
      ]_vars

(***************************************************************************)
(* C16: find_or_alloc on the MRU pool, when some slot of refcnt >= 1       *)
(* satisfies the predicate, returns a slot that satisfies the predicate    *)
(* and runs no initializer, however many free slots come before the match  *)
(* in the list; a free slot is initialized only when the scan has come     *)
(* back to the sentinel with no slot matching, and that slot did not       *)
(* match.                                                                  *)
(***************************************************************************)
C16_MruMatchWins ==
    [][ \A t \in Threads : FindStep(t) /\ kind = "mru"
          => /\ (\E M \in Slots : refcnt[M] >= 1 /\ data[M] \in ev'.c)
                  => /\ ev'.slot # 0 /\ data[ev'.slot] \in ev'.c
                     /\ ev'.ninit = 0
                     /\ data' = data
                     /\ refcnt' = [refcnt EXCEPT ![ev'.slot] = @ + 1]
             /\ ev'.ninit = 1
                  => /\ \A s \in Slots : data[s] \notin ev'.c
                     /\ refcnt[ev'.slot] = 0
      ]_vars

\* A find has returned a slot that was allocated already (no initializer
\* run) while the entry at the head of the list is free and does not match.
C16_Witness ==
    /\ kind = "mru" /\ ev.op = "find" /\ ev.ninit = 0 /\ ev.slot # 0
    /\ refcnt[ev.slot] = 2 /\ data[ev.slot] \in ev.c
    /\ next[0] # ev.slot /\ next[0] # 0
    /\ refcnt[next[0]] = 0 /\ data[next[0]] \notin ev.c

(***************************************************************************)
(* C17: when no slot matches, find_or_alloc on the MRU pool initializes    *)
(* the last free slot in head-to-tail order (the free slot nearest the     *)
(* tail), which is the slot that alloc, scanning from the tail, would take *)
(* in the same state of the pool.                                          *)
(***************************************************************************)
C17_FallbackIsAllocChoice ==
    [][ \A t \in Threads : FindStep(t) /\ kind = "mru"
          => /\ ( /\ \A s \in Slots : data[s] \notin ev'.c
                  /\ \E s \in Slots : refcnt[s] = 0 )
                  => ev'.ninit = 1
             /\ ev'.ninit = 1
                  => /\ ev'.slot = AllocResult.slot
                     /\ AllocResult.tag = "empty"
                     /\ refcnt[ev'.slot] = 0
                     /\ \E i \in 1..Len(Order) :
                          /\ Order[i] = ev'.slot
                          /\ \A j \in (i + 1)..Len(Order) : refcnt[Order[j]] # 0
      ]_vars

\* A find has initialized the free slot at the tail while the slot at the
\* head of the list was free as well, and still is.
C17_Witness ==
    /\ kind = "mru" /\ ev.op = "find" /\ ev.ninit = 1
    /\ ev.slot = prev[0] /\ next[0] # ev.slot
    /\ refcnt[next[0]] = 0 /\ refcnt[ev.slot] = 1

C19_SlotStateMachine ==
    [][ /\ \A s \in Slots : refcnt'[s] # refcnt[s]
             => /\ refcnt'[s] = refcnt[s] + 1 \/ refcnt'[s] = refcnt[s] - 1
                /\ \A o \in Slots \ {s} : refcnt'[o] = refcnt[o]
        /\ \A s \in Slots : refcnt'[s] < refcnt[s]
             => /\ refcnt[s] >= 1 /\ refcnt'[s] >= 0
                /\ \E t \in Threads : DeallocStep(t) \/ FinishStep(t)
        /\ \A t \in Threads : (FindStep(t) \/ AllocStep(t)) /\ ev'.ninit = 1
             => /\ refcnt[ev'.slot] = 0 /\ refcnt'[ev'.slot] = 1
                /\ \A u \in Threads : ~Finalizing(u, ev'.slot)
        /\ \A t \in Threads : (FindStep(t) \/ AllocStep(t)) /\ ev'.ninit = 0
             => data' = data
        /\ \A t \in Threads, s \in Slots : Finalizing(t, s) => refcnt[s] >= 1
      ]_vars

\* While the finalize of one slot is running with the lock released, an
\* initializer has run on the other slot.
C19_Witness ==
    \E t \in Threads :
        /\ pc[t] = "unlocked" /\ refcnt[inflight[t]] >= 1
        /\ ev.op \in {"find", "alloc"} /\ ev.ninit = 1
        /\ ev.slot # 0 /\ ev.slot # inflight[t]

C21_DupFrame ==
    [][ \A t \in Threads : DupStep(t)
          => /\ ev'.op = "dup" /\ ev'.slot # 0
             /\ ev'.ninit = 0 /\ ev'.fin = "none"
             /\ held[t][ev'.slot] >= 1
             /\ refcnt'[ev'.slot] = refcnt[ev'.slot] + 1
             /\ held'[t][ev'.slot] = held[t][ev'.slot] + 1
             /\ \A s \in Slots \ {ev'.slot} :
                  refcnt'[s] = refcnt[s] /\ held'[t][s] = held[t][s]
             /\ \A u \in Threads \ {t} : held'[u] = held[u]
             /\ data' = data
             /\ Order' = Order /\ next' = next /\ prev' = prev
             /\ finalized' = finalized /\ inflight' = inflight
      ]_vars

\* A thread has duplicated its handle of the slot at the tail of the MRU
\* list, which is still at the tail; the other slot is allocated as well.
C21_Witness ==
    /\ kind = "mru" /\ ev.op = "dup" /\ ev.slot # 0
    /\ refcnt[ev.slot] = 2
    /\ \E t \in Threads : held[t][ev.slot] = 2
    /\ prev[0] = ev.slot /\ next[0] # ev.slot
    /\ refcnt[next[0]] = 1

(***************************************************************************)
(* C22: the structure of the MRU list.  After init and after every step of *)
(* every operation, the circular list at the sentinel holds the sentinel   *)
(* and each of the CAPACITY slots exactly once, and next and prev are      *)
(* inverse to each other: no slot is lost or doubled, and a scan from the  *)
(* head or from the tail visits each slot once and ends at the sentinel.   *)
(***************************************************************************)
C22_ListStructure ==
    kind = "mru"
      => /\ Len(Order) = CAPACITY /\ Len(OrderBack) = CAPACITY
         /\ \A s \in Slots :
              /\ Cardinality({i \in 1..Len(Order) : Order[i] = s}) = 1
              /\ Cardinality({i \in 1..Len(OrderBack) : OrderBack[i] = s}) = 1
         /\ next[Order[Len(Order)]] = 0 /\ prev[OrderBack[Len(OrderBack)]] = 0
         /\ \A i \in 1..CAPACITY : OrderBack[i] = Order[CAPACITY + 1 - i]
         /\ \A n \in Nodes : prev[next[n]] = n /\ next[prev[n]] = n
         /\ \A c \in Preds : FindResult(c).tag # "hang"
         /\ AllocResult.tag # "hang"

\* Both slots have been released, slot 1 first and slot 2 after it, and
\* the list holds them in that order of recency.
C22_Witness ==
    /\ kind = "mru" /\ ev.op = "dealloc" /\ ev.slot = 2
    /\ rel = <<2, 1>> /\ Order = <<2, 1>> /\ OrderBack = <<1, 2>>
    /\ \A s \in Slots : refcnt[s] = 0

(***************************************************************************)
(* C23: mutual exclusion of the sleep-lock.  With processes that call      *)
(* acquire, release (after their own acquire) and holding in any           *)
(* interleaving, at most one process holds the Sleeplock at a time, and    *)
(* `locked` and `pid` name that process; an acquire returns only from a    *)
(* state in which it holds the inner spinlock and sees locked = 0, and it  *)
(* leaves locked = 1 and pid = its caller's pid; holding returns true      *)
(* exactly for the process whose acquire returned last with no release     *)
(* since.  The same holds of SleeplockWIP::lock and its guard, with the    *)
(* spinlock's value -1 for free.                                           *)
(***************************************************************************)
C23_SleeplockMutex ==
    /\ [](/\ Cardinality({p \in Procs : proc[p].acquired}) <= 1
           /\ Cardinality({p \in Procs : proc[p].guard}) <= 1
           /\ (\A p \in Procs :
                 /\ proc[p].acquired => sleeplock.locked = 1 /\ sleeplock.pid = p
                 /\ proc[p].guard => wip.spinlock = p)
           /\ (sleeplock.locked = 1 => (\E q \in Procs : proc[q].acquired))
           /\ (wip.spinlock # -1 => (\E r \in Procs : proc[r].guard)))
    /\ [][ \A p \in Procs :
            /\ proc'[p].acquired /\ ~proc[p].acquired
                 => /\ sleeplock.lk = p /\ sleeplock.locked = 0
                    /\ sleeplock'.locked = 1 /\ sleeplock'.pid = p
                    /\ sleeplock'.lk = 0
            /\ proc'[p].guard /\ ~proc[p].guard
                 => /\ wip.lk = p /\ wip.spinlock = -1
                    /\ wip'.spinlock = p /\ wip'.lk = 0
            /\ proc[p].pc = "holding" /\ proc'[p].pc = "idle"
                 => /\ sev'.op = "holding" /\ sev'.p = p
                    /\ sev'.r <=> proc[p].acquired
      ]_vars

\* A process holds the Sleeplock and its holding has returned true, while
\* another process sleeps in acquire and a process other than the holder
\* owns the guard of the SleeplockWIP.
C23_Witness ==
    /\ sev.op = "holding" /\ sev.r /\ sev.p # 0
    /\ proc[sev.p].acquired /\ proc[sev.p].pc = "idle"
    /\ sleeplock.locked = 1 /\ sleeplock.pid = sev.p
    /\ \E q \in Procs \ {sev.p} : proc[q].pc = "sleep" /\ q \in sleeplock.waitchannel
    /\ \E q \in Procs \ {sev.p} : proc[q].guard

====
